---------------------------- MODULE Spec2Model ----------------------------
(***************************************************************************)
(* A model of the CRON job scheduler: the dispatch core (Scheduler.run and *)
(* Scheduler.refresh_schedule over a heapq priority queue), the catalog    *)
(* (jobs table) it reconciles with, and the execution core (WorkerPool).   *)
(*                                                                         *)
(* Time is the wall clock in whole seconds: CRON instants are whole        *)
(* seconds, so every comparison the code makes between an instant and      *)
(* datetime.now() is decided by the second the clock is in.                *)
(***************************************************************************)
EXTENDS Integers, Sequences, FiniteSets, TLC

\* ------------------------------------------------------------------ bounds
\* The last second of the modelled run.
MaxTime == 4
\* How many catalog writes (create / update / delete) a run makes.
MaxCatalogOps == 1
\* How many POST /debug/refresh_schedule requests a run makes.
MaxRefreshCalls == 1
\* Scheduler(worker_pool, refresh_interval): seconds between reconciliations.
refresh_interval == 2
\* ThreadPoolExecutor(max_workers): the number of pool threads.
max_workers == 1
\* The largest max_retries a WorkerPool is built with.
MaxRetriesBound == 5
\* How many exceptions a run raises inside the loop body, besides the
\* IndexError of a pop on an emptied heap.
MaxFaults == 1

\* The catalog service on its own: catalog requests answered and
\* execution rows recorded in one run.
MaxRequests == 3
MaxExecutions == 3

\* The CRON evaluator on its own: the days the base instants lie in.
MaxDay == 0

\* The statistics on their own: the execution rows in the store.
MaxRows == 3

\* A pool thread taking one firing after another: the firings submitted.
MaxFirings == 2

\* The queue bound the execution core is specified to have: 4 x W.
QueueBound == 4 * max_workers
\* How many POST /debug/execute requests a run makes: enough to overfill
\* a queue of QueueBound firings.
MaxSubmissions == QueueBound + 2

\* ------------------------------------------------------------ the catalog
\* job_id values (uuid4 in the source), ordered: the jobs created through
\* POST /jobs, and the temporary jobs of POST /debug/execute.
Jobs == {1, 2}
DebugJobs == 3..(2 + MaxSubmissions)
JobIds == Jobs \cup DebugJobs

\* Schedules a job row can hold: two that validate and the empty string,
\* which PUT /jobs/{id} lets through and which does not validate. croniter
\* reads the sixth field of a six-field expression as the seconds.
EverySecond == "*/1 * * * * *"
EveryOtherSecond == "* * * * * */2"
ValidExprs == {EverySecond, EveryOtherSecond}
Exprs == ValidExprs \cup {""}

ApiUrl == "http://r/ok"

None == <<>>
Some(x) == <<x>>

\* No row with this job_id.
NoJob == [exists |-> FALSE, schedule |-> "", api_url |-> "", active |-> FALSE]

Job(schedule, api_url, active) ==
    [exists |-> TRUE, schedule |-> schedule, api_url |-> api_url, active |-> active]

\* ------------------------------------------------------- the CRON evaluator
\* The expressions the evaluator is given: the catalog's, the examples of
\* format_cron_description, expressions with a restricted first or second
\* field, and strings that do not validate.
EveryFiveMinutes == "0 */5 * * * *"
EveryMinute == "0 * * * * *"
FirstFieldStep == "*/2 * * * * *"
HalfPast == "0 30 * * * *"
FiveFields == "*/5 * * * *"
SecondOutOfRange == "* * * * * 60"
Bogus == "bogus"
CronExprs ==
    Exprs \cup {EveryFiveMinutes, EveryMinute, FirstFieldStep, HalfPast,
                FiveFields, SecondOutOfRange, Bogus}

\* expression.strip().split(): the whitespace-separated parts.
split(expression) ==
    CASE expression = EverySecond -> <<"*/1", "*", "*", "*", "*", "*">>
      [] expression = EveryOtherSecond -> <<"*", "*", "*", "*", "*", "*/2">>
      [] expression = EveryFiveMinutes -> <<"0", "*/5", "*", "*", "*", "*">>
      [] expression = EveryMinute -> <<"0", "*", "*", "*", "*", "*">>
      [] expression = FirstFieldStep -> <<"*/2", "*", "*", "*", "*", "*">>
      [] expression = HalfPast -> <<"0", "30", "*", "*", "*", "*">>
      [] expression = FiveFields -> <<"*/5", "*", "*", "*", "*">>
      [] expression = SecondOutOfRange -> <<"*", "*", "*", "*", "*", "60">>
      [] expression = Bogus -> <<"bogus">>
      [] OTHER -> <<>>

\* How croniter reads one part: "*" and "*/n" step through the field's
\* range, a number is a literal, anything else is an error.
ParseField(part) ==
    CASE part = "*" -> [kind |-> "step", n |-> 1]
      [] part = "*/1" -> [kind |-> "step", n |-> 1]
      [] part = "*/2" -> [kind |-> "step", n |-> 2]
      [] part = "*/5" -> [kind |-> "step", n |-> 5]
      [] part = "0" -> [kind |-> "literal", n |-> 0]
      [] part = "30" -> [kind |-> "literal", n |-> 30]
      [] part = "60" -> [kind |-> "literal", n |-> 60]
      [] OTHER -> [kind |-> "error", n |-> 0]

\* croniter's field layout for six parts: minute, hour, day of month,
\* month, day of week, second; and croniter.RANGES.
MINUTE_FIELD == 1
HOUR_FIELD == 2
SECOND_FIELD == 6
RANGES == <<<<0, 59>>, <<0, 23>>, <<1, 31>>, <<1, 12>>, <<0, 6>>, <<0, 59>>>>

\* Whether the part parses within the range of field i.
FieldOk(part, i) ==
    LET f == ParseField(part)
    IN  CASE f.kind = "step" -> f.n >= 1
          [] f.kind = "literal" -> RANGES[i][1] <= f.n /\ f.n <= RANGES[i][2]
          [] OTHER -> FALSE

\* Whether the part allows value v of field i.
FieldAllows(part, i, v) ==
    LET f == ParseField(part)
    IN  CASE f.kind = "step" -> (v - RANGES[i][1]) % f.n = 0
          [] f.kind = "literal" -> v = f.n
          [] OTHER -> FALSE

\* The least value of field i, not below v, that the part allows; -1 when
\* the field's range holds none.
FirstFrom(part, i, v) ==
    LET f == ParseField(part)
        low == RANGES[i][1]
        from == IF v < low THEN low ELSE v
        stepped == low + ((from - low + f.n - 1) \div f.n) * f.n
    IN  CASE f.kind = "step" ->
               IF stepped <= RANGES[i][2] THEN stepped ELSE -1
          [] f.kind = "literal" -> IF v <= f.n THEN f.n ELSE -1
          [] OTHER -> -1

\* CronUtils.validate_cron: exactly six parts, and croniter(expression)
\* does not raise: every part parses within its field's range.
validate_cron(expression) ==
    LET parts == split(expression)
    IN  /\ Len(parts) = 6
        /\ \A i \in 1..6 : FieldOk(parts[i], i)

\* An instant is a whole number of seconds since a midnight.
SecondOf(t) == t % 60
MinuteOf(t) == (t \div 60) % 60
HourOf(t) == (t \div 3600) % 24
DayOf(t) == t \div 86400
Instant(day, hour, minute, second) ==
    day * 86400 + hour * 3600 + minute * 60 + second

\* Whether instant t matches the expression as croniter reads it. The
\* day, month and weekday parts of every expression here are "*".
Matches(expression, t) ==
    LET parts == split(expression)
    IN  /\ FieldAllows(parts[SECOND_FIELD], SECOND_FIELD, SecondOf(t))
        /\ FieldAllows(parts[MINUTE_FIELD], MINUTE_FIELD, MinuteOf(t))
        /\ FieldAllows(parts[HOUR_FIELD], HOUR_FIELD, HourOf(t))

\* The period of a catalog schedule, in seconds.
SecondStep(expression) == IF expression = EverySecond THEN 1 ELSE 2

\* (mutant of Later: the value itself is tried first)
LaterOrSame(v) == v

\* get_next looks for a match strictly after base_time: the search in a
\* field starts one past the field's present value.
Later(v) == v + 1

\* croniter(expression, base_time).get_next: it moves the second forward
\* within the minute if it can, else the minute within the hour, else the
\* hour within the day, else it goes to the first match of the next day.
croniter_get_next(expression, base_time) ==
    LET parts == split(expression)
        sec == parts[SECOND_FIELD]
        min == parts[MINUTE_FIELD]
        hour == parts[HOUR_FIELD]
        d == DayOf(base_time)
        h == HourOf(base_time)
        m == MinuteOf(base_time)
        later_second == FirstFrom(sec, SECOND_FIELD, Later(SecondOf(base_time)))
        later_minute == FirstFrom(min, MINUTE_FIELD, Later(m))
        later_hour == FirstFrom(hour, HOUR_FIELD, Later(h))
        first_second == FirstFrom(sec, SECOND_FIELD, 0)
        first_minute == FirstFrom(min, MINUTE_FIELD, 0)
        first_hour == FirstFrom(hour, HOUR_FIELD, 0)
    IN  IF /\ FieldAllows(hour, HOUR_FIELD, h)
           /\ FieldAllows(min, MINUTE_FIELD, m)
           /\ later_second >= 0
        THEN Instant(d, h, m, later_second)
        ELSE IF FieldAllows(hour, HOUR_FIELD, h) /\ later_minute >= 0
        THEN Instant(d, h, later_minute, first_second)
        ELSE IF later_hour >= 0
        THEN Instant(d, later_hour, first_minute, first_second)
        ELSE Instant(d + 1, first_hour, first_minute, first_second)

\* CronUtils.get_next_run_time: None stands for the ValueError it raises.
get_next_run_time(expression, base_time) ==
    IF ~validate_cron(expression)
    THEN None
    ELSE Some(croniter_get_next(expression, base_time))

\* The base instants the evaluator is given: around the ends of minutes,
\* half hours, hours, the hours a step of five allows, and the day.
BaseHours == {0, 4, 5, 20, 23}
BaseMinutes == {0, 29, 30, 59}
BaseSeconds == {0, 1, 29, 58, 59}
BaseTimes ==
    {Instant(d, h, m, s) : d \in 0..MaxDay, h \in BaseHours,
                           m \in BaseMinutes, s \in BaseSeconds}

\* ------------------------------------------------------------------- heapq
\* ScheduledJob.__lt__: entries compare by next_run alone.
EntryLt(a, b) == a.next_run < b.next_run

ScheduledJob(job_id, next_run, schedule, api_url) ==
    [job_id |-> job_id, next_run |-> next_run, schedule |-> schedule,
     api_url |-> api_url]

\* heapq._siftdown(heap, startpos, pos); positions are 0-based as in heapq,
\* the sequence is 1-based.
RECURSIVE SiftDownFrom(_, _, _, _)
SiftDownFrom(heap, startpos, pos, newitem) ==
    IF pos > startpos
    THEN LET parentpos == (pos - 1) \div 2
             parent == heap[parentpos + 1]
         IN  IF EntryLt(newitem, parent)
             THEN SiftDownFrom([heap EXCEPT ![pos + 1] = parent],
                               startpos, parentpos, newitem)
             ELSE [heap EXCEPT ![pos + 1] = newitem]
    ELSE [heap EXCEPT ![pos + 1] = newitem]

siftdown(heap, startpos, pos) == SiftDownFrom(heap, startpos, pos, heap[pos + 1])

\* heapq._siftup(heap, pos): bubble the smaller child up to a leaf, then
\* sift the item down from there.
RECURSIVE SiftUpFrom(_, _, _, _)
SiftUpFrom(heap, startpos, pos, newitem) ==
    LET endpos == Len(heap)
        leftpos == 2 * pos + 1
        rightpos == leftpos + 1
    IN  IF leftpos < endpos
        THEN LET childpos ==
                     IF rightpos < endpos
                        /\ ~EntryLt(heap[leftpos + 1], heap[rightpos + 1])
                     THEN rightpos
                     ELSE leftpos
             IN  SiftUpFrom([heap EXCEPT ![pos + 1] = heap[childpos + 1]],
                            startpos, childpos, newitem)
        ELSE siftdown([heap EXCEPT ![pos + 1] = newitem], startpos, pos)

siftup(heap, pos) == SiftUpFrom(heap, pos, pos, heap[pos + 1])

\* heapq.heappush(heap, item)
heappush(heap, item) == siftdown(Append(heap, item), 0, Len(heap))

\* heapq.heappop(heap) on a non-empty heap: the item returned ...
heappop_item(heap) == heap[1]

\* ... and the heap it leaves.
heappop_rest(heap) ==
    LET lastelt == heap[Len(heap)]
        rest == SubSeq(heap, 1, Len(heap) - 1)
    IN  IF rest = <<>> THEN <<>> ELSE siftup([rest EXCEPT ![1] = lastelt], 0)


\* ------------------------------------------------------------------- state
VARIABLES
    clock,           \* the wall clock, in whole seconds
    jobs_table,      \* the jobs table: job_id -> row
    ops,             \* catalog writes made so far
    priority_queue,  \* Scheduler.priority_queue, a heapq list
    lock,            \* Scheduler.lock: "free" or the thread that holds it
    is_running,      \* Scheduler.is_running
    pc,              \* where each thread is: the dispatch loop and a request
                     \* handler running POST /debug/refresh_schedule
    jobs,            \* per thread, refresh_schedule's local `jobs`
    last_refresh,    \* run's local last_refresh
    next_job,        \* run's local next_job (the peeked entry)
    now,             \* run's local now
    job,             \* run's local job (the popped entry)
    rcalls,          \* refresh requests made so far
    queue,           \* the executor's work queue: firings not yet started
    busy,            \* pool threads that are executing a firing
    in_flight,       \* the firings the pool threads are executing
    run_now_calls,   \* POST /debug/execute requests made so far
    max_retries,     \* WorkerPool.max_retries
    wpc,             \* where the pool thread is in _execute_job
    firing,          \* _execute_job's arguments
    execution_id,    \* _execute_job's local execution_id
    actual_start_time, \* _execute_job's local actual_start_time
    attempt,         \* _execute_job's local attempt
    last_error,      \* _execute_job's local last_error
    outcome,         \* how the latest requests.post ended
    duration_ms,     \* _execute_job's local duration_ms
    backoff,         \* the seconds of the backoff sleep in progress
    job_executions,  \* the job_executions table, in insertion order
    record_errors,   \* "Failed to record execution" errors logged
    posts,           \* history: requests.post calls made for the firing
    sleeps,          \* history: backoff sleeps taken for the firing
    seen2xx,         \* history: some attempt returned a 2xx status
    drawn,           \* history: the execution ids uuid4 has returned
    lastSched,       \* history: per job, the last scheduled_time dispatched
    quiesced,        \* history: per job, a reconciliation that read the
                     \* catalog without the job has completed since the
                     \* job was last set inactive
    startJobs,       \* history: the jobs active and valid when run() began
    firstIteration,  \* history: the loop has not yet finished an iteration
    stop_called,     \* history: Scheduler.stop() has been called
    faults,          \* exceptions raised so far inside the loop body
    shutdown,        \* executor._shutdown
    stopper,         \* where the shutdown path is in WorkerPool.stop()
    refused,         \* history: submissions the executor has refused
    response,        \* the latest catalog request and its status code
    eval_expression, \* get_next_run_time's argument expression
    eval_base_time,  \* get_next_run_time's argument base_time
    eval_result      \* what get_next_run_time returned or raised

dispatchVars ==
    <<clock, jobs_table, ops, priority_queue, lock, is_running, pc, jobs,
      last_refresh, next_job, now, job, rcalls, lastSched, quiesced,
      startJobs, firstIteration>>

poolVars == <<queue, busy, in_flight, run_now_calls>>

workerVars ==
    <<max_retries, wpc, firing, execution_id, actual_start_time, attempt,
      last_error, outcome, duration_ms, backoff, job_executions,
      record_errors, posts, sleeps, seen2xx, drawn>>

auxVars ==
    <<stop_called, faults, shutdown, stopper, refused, response,
      eval_expression, eval_base_time, eval_result>>

Threads == {"loop", "api"}

\* A local that holds no entry.
NoEntry == ScheduledJob(0, 0, "", "")

\* The sequences that list the elements of S once each, in any order.
RECURSIVE Orderings(_)
Orderings(S) ==
    IF S = {} THEN {<<>>}
    ELSE UNION {{<<x>> \o rest : rest \in Orderings(S \ {x})} : x \in S}

\* A job row is scheduled when it is active and its schedule validates.
ActiveValid(j) ==
    /\ jobs_table[j].exists
    /\ jobs_table[j].active
    /\ validate_cron(jobs_table[j].schedule)

HeapJobIds == {priority_queue[i].job_id : i \in 1..Len(priority_queue)}

\* -------------------------------------------------------------- the clock
\* One second passes. A sleep of the dispatch loop is at most one second
\* long, so it ends with the second; the empty-heap sleep is taken inside
\* `with self.lock`, which is released when it ends.
Tick ==
    /\ clock < MaxTime
    /\ clock' = clock + 1
    /\ IF pc["loop"] \in {"sleep", "sleep_locked", "error_sleep"}
       THEN /\ pc' = [pc EXCEPT !["loop"] = "loop"]
            /\ lock' = IF pc["loop"] = "sleep_locked" THEN "free" ELSE lock
       ELSE UNCHANGED <<pc, lock>>
    /\ UNCHANGED <<jobs_table, ops, priority_queue, is_running, jobs,
                   last_refresh, next_job, now, job, rcalls, lastSched,
                   quiesced, startJobs, firstIteration>>
    /\ UNCHANGED <<poolVars, workerVars, auxVars>>

\* ------------------------------------------------------- catalog requests
\* JobService.create_job: a new row, active by default.
create_job(table, j, schedule) ==
    [table EXCEPT ![j] = Job(schedule, ApiUrl, TRUE)]

\* JobService.update_job: every argument that is not None is assigned.
update_job(table, j, schedule, active) ==
    LET row == table[j]
        s == IF schedule # None THEN schedule[1] ELSE row.schedule
        a == IF active # None THEN active[1] ELSE row.active
    IN  [table EXCEPT ![j] = Job(s, row.api_url, a)]

\* (mutant of delete_job: the row is removed)
delete_job_hard(table, j) == [table EXCEPT ![j] = NoJob]

\* JobService.delete_job: job.active = False, nothing else.
delete_job(table, j) == [table EXCEPT ![j].active = FALSE]

\* POST /jobs: create_job after validate_cron; the row is created active.
CreateJob(j, schedule) ==
    /\ ops < MaxCatalogOps
    /\ ~jobs_table[j].exists
    /\ validate_cron(schedule)
    /\ jobs_table' = create_job(jobs_table, j, schedule)
    /\ ops' = ops + 1
    /\ UNCHANGED <<clock, priority_queue, lock, is_running, pc, jobs,
                   last_refresh, next_job, now, job, rcalls, lastSched,
                   quiesced, startJobs, firstIteration>>
    /\ UNCHANGED <<poolVars, workerVars, auxVars>>

\* PUT /jobs/{id}: the schedule is validated only when it is truthy, and
\* JobService.update_job assigns every field that is not None.
UpdateJob(j, schedule, active) ==
    /\ ops < MaxCatalogOps
    /\ jobs_table[j].exists
    /\ ~(schedule # None /\ schedule[1] # "" /\ ~validate_cron(schedule[1]))
    /\ jobs_table' = update_job(jobs_table, j, schedule, active)
    /\ quiesced' = [quiesced EXCEPT
                        ![j] = IF jobs_table'[j].active THEN FALSE ELSE @]
    /\ ops' = ops + 1
    /\ UNCHANGED <<clock, priority_queue, lock, is_running, pc, jobs,
                   last_refresh, next_job, now, job, rcalls, lastSched,
                   startJobs, firstIteration>>
    /\ UNCHANGED <<poolVars, workerVars, auxVars>>

\* DELETE /jobs/{id}: JobService.delete_job sets active = False.
DeleteJob(j) ==
    /\ ops < MaxCatalogOps
    /\ jobs_table[j].exists
    /\ jobs_table' = delete_job(jobs_table, j)
    /\ ops' = ops + 1
    /\ UNCHANGED <<clock, priority_queue, lock, is_running, pc, jobs,
                   last_refresh, next_job, now, job, rcalls, lastSched,
                   quiesced, startJobs, firstIteration>>
    /\ UNCHANGED <<poolVars, workerVars, auxVars>>

\* ------------------------------------------------------- refresh_schedule
\* Scheduler.load_active_jobs: the active rows, in whatever order the
\* query returns them. It runs before the lock is taken.
load_active_jobs ==
    Orderings({[job_id |-> j, schedule |-> jobs_table[j].schedule,
                api_url |-> jobs_table[j].api_url] :
               j \in {k \in JobIds : jobs_table[k].exists /\ jobs_table[k].active}})

\* (mutant of PushAll: the first schedule that raises ends the loop)
RECURSIVE PushAllAbort(_, _, _)
PushAllAbort(heap, js, t) ==
    IF js = <<>> THEN heap
    ELSE LET next_run == get_next_run_time(js[1].schedule, t)
         IN  IF next_run = None
             THEN heap
             ELSE PushAllAbort(heappush(heap,
                                        ScheduledJob(js[1].job_id, next_run[1],
                                                     js[1].schedule,
                                                     js[1].api_url)),
                               Tail(js), t)

\* The loop of refresh_schedule over `jobs`, from the cleared heap: a job
\* whose schedule raises is logged and skipped.
RECURSIVE PushAll(_, _, _)
PushAll(heap, js, t) ==
    IF js = <<>> THEN heap
    ELSE LET next_run == get_next_run_time(js[1].schedule, t)
         IN  PushAll(IF next_run = None
                     THEN heap
                     ELSE heappush(heap, ScheduledJob(js[1].job_id, next_run[1],
                                                      js[1].schedule,
                                                      js[1].api_url)),
                     Tail(js), t)

\* (mutant of clear: the heap is left as it is)
clear_skipped(heap) == heap

\* refresh_schedule, line 67: self.priority_queue.clear()
clear(heap) == <<>>

\* Where a thread goes after refresh_schedule returns.
AfterRefresh(t) == IF t = "loop" THEN "refreshed" ELSE "idle"

\* refresh_schedule, line 64: jobs = self.load_active_jobs()
RefreshLoad(t) ==
    /\ pc[t] = "refresh_load"
    /\ \E js \in load_active_jobs : jobs' = [jobs EXCEPT ![t] = js]
    /\ pc' = [pc EXCEPT ![t] = "refresh_rebuild"]
    /\ UNCHANGED <<clock, jobs_table, ops, priority_queue, lock, is_running,
                   last_refresh, next_job, now, job, rcalls, lastSched,
                   quiesced, startJobs, firstIteration>>
    /\ UNCHANGED <<poolVars, workerVars, auxVars>>

\* refresh_schedule, lines 66-85: under the lock, clear the heap and push
\* every loaded job with next_run computed from datetime.now().
RefreshRebuild(t) ==
    /\ pc[t] = "refresh_rebuild"
    /\ lock = "free"
    /\ priority_queue' = PushAll(clear(priority_queue), jobs[t], clock)
    /\ jobs' = [jobs EXCEPT ![t] = <<>>]
    /\ pc' = [pc EXCEPT ![t] = AfterRefresh(t)]
    /\ quiesced' = [j \in Jobs |->
                      \/ quiesced[j]
                      \/ /\ jobs_table[j].exists
                         /\ ~jobs_table[j].active
                         /\ \A i \in 1..Len(jobs[t]) : jobs[t][i].job_id # j]
    /\ UNCHANGED <<clock, jobs_table, ops, lock, is_running, last_refresh,
                   next_job, now, job, rcalls, lastSched, startJobs,
                   firstIteration>>
    /\ UNCHANGED <<poolVars, workerVars, auxVars>>

\* POST /debug/refresh_schedule: a request handler calls refresh_schedule.
RefreshCall ==
    /\ pc["api"] = "idle"
    /\ rcalls < MaxRefreshCalls
    /\ rcalls' = rcalls + 1
    /\ pc' = [pc EXCEPT !["api"] = "refresh_load"]
    /\ UNCHANGED <<clock, jobs_table, ops, priority_queue, lock, is_running,
                   jobs, last_refresh, next_job, now, job, lastSched,
                   quiesced, startJobs, firstIteration>>
    /\ UNCHANGED <<poolVars, workerVars, auxVars>>

\* ---------------------------------------------------------- Scheduler.run
\* What run's locals hold between iterations.
LoopLocalsReset ==
    /\ next_job' = NoEntry
    /\ job' = NoEntry
    /\ now' = 0

\* run, lines 89-92: is_running = True; last_refresh = time.time(). The
\* heap is as __init__ left it.
RunBegin ==
    /\ pc["loop"] = "run"
    /\ is_running' = TRUE
    /\ last_refresh' = clock
    /\ startJobs' = {j \in Jobs : ActiveValid(j)}
    /\ pc' = [pc EXCEPT !["loop"] = "loop"]
    /\ UNCHANGED <<clock, jobs_table, ops, priority_queue, lock, jobs,
                   next_job, now, job, rcalls, lastSched, quiesced,
                   firstIteration>>
    /\ UNCHANGED <<poolVars, workerVars, auxVars>>

\* run, line 94: while self.is_running
LoopTest ==
    /\ pc["loop"] = "loop"
    /\ pc' = [pc EXCEPT !["loop"] = IF is_running THEN "refresh_check" ELSE "exited"]
    /\ UNCHANGED <<clock, jobs_table, ops, priority_queue, lock, is_running,
                   jobs, last_refresh, next_job, now, job, rcalls, lastSched,
                   quiesced, startJobs, firstIteration>>
    /\ UNCHANGED <<poolVars, workerVars, auxVars>>

\* (mutant of RefreshDue: the operands of the subtraction swapped)
RefreshDueSwapped == last_refresh - clock >= refresh_interval

\* run, line 97: the periodic reconciliation is due when refresh_interval
\* seconds have passed since last_refresh.
RefreshDue == clock - last_refresh >= refresh_interval

LoopRefreshCheck ==
    /\ pc["loop"] = "refresh_check"
    /\ pc' = [pc EXCEPT !["loop"] = IF RefreshDue THEN "refresh_load" ELSE "check_queue"]
    /\ UNCHANGED <<clock, jobs_table, ops, priority_queue, lock, is_running,
                   jobs, last_refresh, next_job, now, job, rcalls, lastSched,
                   quiesced, startJobs, firstIteration>>
    /\ UNCHANGED <<poolVars, workerVars, auxVars>>

\* run, line 99: last_refresh = time.time(), after refresh_schedule returned.
LoopRefreshed ==
    /\ pc["loop"] = "refreshed"
    /\ last_refresh' = clock
    /\ pc' = [pc EXCEPT !["loop"] = "check_queue"]
    /\ UNCHANGED <<clock, jobs_table, ops, priority_queue, lock, is_running,
                   jobs, next_job, now, job, rcalls, lastSched, quiesced,
                   startJobs, firstIteration>>
    /\ UNCHANGED <<poolVars, workerVars, auxVars>>

\* run, lines 102-108: under the lock, sleep one second when the heap is
\* empty (the lock stays held for the sleep), else peek at the earliest
\* entry.
LoopCheckQueue ==
    /\ pc["loop"] = "check_queue"
    /\ lock = "free"
    /\ IF priority_queue = <<>>
       THEN /\ lock' = "loop"
            /\ pc' = [pc EXCEPT !["loop"] = "sleep_locked"]
            /\ firstIteration' = FALSE
            /\ UNCHANGED next_job
       ELSE /\ next_job' = priority_queue[1]
            /\ pc' = [pc EXCEPT !["loop"] = "due_check"]
            /\ UNCHANGED <<lock, firstIteration>>
    /\ UNCHANGED <<clock, jobs_table, ops, priority_queue, is_running, jobs,
                   last_refresh, now, job, rcalls, lastSched, quiesced,
                   startJobs>>
    /\ UNCHANGED <<poolVars, workerVars, auxVars>>

\* run, lines 110-113 and 141-145: now = datetime.now(); the peeked entry
\* is due when next_run <= now, otherwise the loop sleeps
\* min(next_run - now, 1) seconds.
LoopDueCheck ==
    /\ pc["loop"] = "due_check"
    /\ now' = clock
    /\ IF next_job.next_run <= clock
       THEN /\ pc' = [pc EXCEPT !["loop"] = "pop"]
            /\ UNCHANGED firstIteration
       ELSE /\ pc' = [pc EXCEPT !["loop"] = "sleep"]
            /\ firstIteration' = FALSE
    /\ UNCHANGED <<clock, jobs_table, ops, priority_queue, lock, is_running,
                   jobs, last_refresh, next_job, job, rcalls, lastSched,
                   quiesced, startJobs>>
    /\ UNCHANGED <<poolVars, workerVars, auxVars>>

\* (mutant of AfterException: the exception ends the thread)
AfterExceptionUncaught == "exited"

\* run, lines 147-149: an exception raised in the loop body is logged and
\* the loop sleeps one second before the next iteration.
AfterException == "error_sleep"

\* run, lines 114-116: job = heapq.heappop(self.priority_queue) under the
\* lock. On a heap emptied since the peek heappop raises IndexError, which
\* the handler of lines 147-149 logs before sleeping one second.
LoopPop ==
    /\ pc["loop"] = "pop"
    /\ lock = "free"
    /\ IF priority_queue = <<>>
       THEN /\ pc' = [pc EXCEPT !["loop"] = AfterException]
            /\ firstIteration' = FALSE
            /\ UNCHANGED <<priority_queue, job>>
       ELSE /\ job' = heappop_item(priority_queue)
            /\ priority_queue' = heappop_rest(priority_queue)
            /\ pc' = [pc EXCEPT !["loop"] = "submit"]
            /\ UNCHANGED firstIteration
    /\ UNCHANGED <<clock, jobs_table, ops, lock, is_running, jobs,
                   last_refresh, next_job, now, rcalls, lastSched, quiesced,
                   startJobs>>
    /\ UNCHANGED <<poolVars, workerVars, auxVars>>

\* WorkerPool.submit_job: executor.submit puts the firing on the
\* executor's work queue, whatever its length.
submit_job(q, job_id, api_url, scheduled_time) ==
    Append(q, [job_id |-> job_id, api_url |-> api_url,
               scheduled_time |-> scheduled_time])

\* run, lines 121-125: hand the popped entry to the worker pool.
LoopSubmit ==
    /\ pc["loop"] = "submit"
    /\ ~shutdown
    /\ queue' = submit_job(queue, job.job_id, job.api_url, job.next_run)
    /\ lastSched' = [lastSched EXCEPT ![job.job_id] = job.next_run]
    /\ pc' = [pc EXCEPT !["loop"] = "reschedule"]
    /\ UNCHANGED <<clock, jobs_table, ops, priority_queue, lock, is_running,
                   jobs, last_refresh, next_job, now, job, rcalls, quiesced,
                   startJobs, firstIteration, busy, in_flight,
                   run_now_calls>>
    /\ UNCHANGED <<workerVars, auxVars>>

\* (mutant of RescheduleTime: the next instant after the popped entry's)
RescheduleTimeCatchUp(schedule, t) == get_next_run_time(schedule, job.next_run)

\* run, line 129: the rescheduled entry's next_run is computed from the
\* `now` read before the pop.
RescheduleTime(schedule, t) == get_next_run_time(schedule, t)

\* run, lines 128-140: push the job back with its next fire instant; an
\* error of get_next_run_time is logged and the job is not pushed.
LoopReschedule ==
    /\ pc["loop"] = "reschedule"
    /\ LET next_run == RescheduleTime(job.schedule, now)
       IN  IF next_run = None
           THEN UNCHANGED priority_queue
           ELSE /\ lock = "free"
                /\ priority_queue' =
                       heappush(priority_queue,
                                ScheduledJob(job.job_id, next_run[1],
                                             job.schedule, job.api_url))
    /\ LoopLocalsReset
    /\ firstIteration' = FALSE
    /\ pc' = [pc EXCEPT !["loop"] = "loop"]
    /\ UNCHANGED <<clock, jobs_table, ops, lock, is_running, jobs,
                   last_refresh, rcalls, lastSched, quiesced, startJobs>>
    /\ UNCHANGED <<poolVars, workerVars, auxVars>>

\* run, line 98 with load_active_jobs, lines 56-57: the catalog read of
\* the loop's reconciliation raises (the store is unreachable); the
\* exception leaves refresh_schedule and is caught by run.
LoadFails ==
    /\ pc["loop"] = "refresh_load"
    /\ faults < MaxFaults
    /\ faults' = faults + 1
    /\ pc' = [pc EXCEPT !["loop"] = AfterException]
    /\ firstIteration' = FALSE
    /\ UNCHANGED <<clock, jobs_table, ops, priority_queue, lock, is_running,
                   jobs, last_refresh, next_job, now, job, rcalls, lastSched,
                   quiesced, startJobs>>
    /\ UNCHANGED <<stop_called, shutdown, stopper, refused, response,
                   eval_expression, eval_base_time, eval_result>>
    /\ UNCHANGED <<poolVars, workerVars>>

\* run, lines 121-125: worker_pool.submit_job raises; the popped entry is
\* not pushed back.
SubmitFails ==
    /\ pc["loop"] = "submit"
    /\ faults < MaxFaults
    /\ faults' = faults + 1
    /\ pc' = [pc EXCEPT !["loop"] = AfterException]
    /\ firstIteration' = FALSE
    /\ UNCHANGED <<clock, jobs_table, ops, priority_queue, lock, is_running,
                   jobs, last_refresh, next_job, now, job, rcalls, lastSched,
                   quiesced, startJobs>>
    /\ UNCHANGED <<stop_called, shutdown, stopper, refused, response,
                   eval_expression, eval_base_time, eval_result>>
    /\ UNCHANGED <<poolVars, workerVars>>

\* Scheduler.stop, lines 153-156, called by the shutdown path of lifespan
\* at any moment after the loop thread was started.
Stop ==
    /\ ~stop_called
    /\ stop_called' = TRUE
    /\ is_running' = FALSE
    /\ UNCHANGED <<clock, jobs_table, ops, priority_queue, lock, pc, jobs,
                   last_refresh, next_job, now, job, rcalls, lastSched,
                   quiesced, startJobs, firstIteration>>
    /\ UNCHANGED <<faults, shutdown, stopper, refused, response,
                   eval_expression, eval_base_time, eval_result>>
    /\ UNCHANGED <<poolVars, workerVars>>

\* --------------------------------------------------------- the worker pool
JobExecution(eid, f, start, status, http_status, duration, error_message) ==
    [execution_id |-> eid, job_id |-> f.job_id,
     scheduled_time |-> f.scheduled_time, actual_start_time |-> start,
     status |-> status, http_status |-> http_status,
     duration_ms |-> duration, error_message |-> error_message]

\* (mutant of PrimaryKeyFree: no primary key on execution_id)
PrimaryKeyUnchecked(rows, eid) == TRUE

\* JobExecution.execution_id is the primary key: no row has this id yet.
PrimaryKeyFree(rows, eid) ==
    \A i \in 1..Len(rows) : rows[i].execution_id # eid

\* (mutant of ForeignKeyHolds: no foreign key on job_id)
ForeignKeyUnchecked(table, job_id) == TRUE

\* JobExecution.job_id is a foreign key to jobs.job_id: the row exists.
ForeignKeyHolds(table, job_id) ==
    job_id \in DOMAIN table /\ table[job_id].exists

\* Whether db.add and db.commit go through: the store works and the row
\* breaks neither constraint.
InsertAccepted(store_ok, rows, row, table) ==
    /\ store_ok
    /\ PrimaryKeyFree(rows, row.execution_id)
    /\ ForeignKeyHolds(table, row.job_id)

\* A free pool thread takes the firing at the head of the work queue and
\* starts _execute_job on it; it does so after shutdown() as well, until
\* the queue is empty.
ExecutorStart ==
    /\ queue # <<>>
    /\ busy < max_workers
    /\ queue' = Tail(queue)
    /\ busy' = busy + 1
    /\ in_flight' = Append(in_flight, Head(queue))
    /\ UNCHANGED <<run_now_calls, dispatchVars, workerVars, auxVars>>

\* The sequence without its i-th element.
Without(seq, i) == SubSeq(seq, 1, i - 1) \o SubSeq(seq, i + 1, Len(seq))

\* _execute_job returns and the pool thread is free again. Its last step
\* is _record_execution with the terminal status; the insert raises when
\* the store fails or the job row the execution references is missing,
\* and _record_execution logs that.
ExecutorFinish(i, status, store_ok) ==
    /\ i \in 1..Len(in_flight)
    /\ LET f == in_flight[i]
           row == JobExecution(f.job_id, f, f.scheduled_time, status,
                               IF status = "SUCCESS" THEN Some(200) ELSE None,
                               IF status = "SUCCESS" THEN Some(0) ELSE None,
                               IF status = "SUCCESS" THEN None ELSE Some("HTTP 500"))
           insert_ok == InsertAccepted(store_ok, job_executions, row, jobs_table)
       IN  /\ job_executions' = IF insert_ok
                                THEN Append(job_executions, row)
                                ELSE job_executions
           /\ record_errors' = IF insert_ok THEN record_errors
                               ELSE record_errors + 1
    /\ in_flight' = Without(in_flight, i)
    /\ busy' = busy - 1
    /\ UNCHANGED <<max_retries, wpc, firing, execution_id, actual_start_time,
                   attempt, last_error, outcome, duration_ms, backoff, posts,
                   sleeps, seen2xx, drawn>>
    /\ UNCHANGED <<queue, run_now_calls, dispatchVars, auxVars>>

\* POST /debug/execute (run_now): a fresh job_id, scheduled_time = now; an
\* inactive job row is inserted so that the execution can reference it (a
\* failed insert is logged and the firing is submitted all the same).
\* After shutdown() executor.submit raises RuntimeError: the firing is
\* not queued.
RunNow(insert_ok) ==
    /\ run_now_calls < MaxSubmissions
    /\ LET job_id == 3 + run_now_calls
       IN  /\ jobs_table' =
                  IF insert_ok
                  THEN [jobs_table EXCEPT
                            ![job_id] = Job("0 * * * * *", ApiUrl, FALSE)]
                  ELSE jobs_table
           /\ queue' = IF shutdown THEN queue
                       ELSE submit_job(queue, job_id, ApiUrl, clock)
    /\ refused' = IF shutdown THEN refused + 1 ELSE refused
    /\ run_now_calls' = run_now_calls + 1
    /\ UNCHANGED <<clock, ops, priority_queue, lock, is_running, pc, jobs,
                   last_refresh, next_job, now, job, rcalls, lastSched,
                   quiesced, startJobs, firstIteration, busy, in_flight>>
    /\ UNCHANGED <<stop_called, faults, shutdown, stopper, response,
                   eval_expression, eval_base_time, eval_result>>
    /\ UNCHANGED workerVars

\* (mutant of AllDone: shutdown(wait=False))
AllDoneNoWait == TRUE

\* executor.shutdown(wait=True) joins the pool threads, which end when
\* the work queue is empty and no firing is being executed.
AllDone == queue = <<>> /\ in_flight = <<>>

\* WorkerPool.stop, lines 174-177: executor.shutdown sets _shutdown ...
PoolStop ==
    /\ stopper = "idle"
    /\ shutdown' = TRUE
    /\ stopper' = "waiting"
    /\ UNCHANGED <<stop_called, faults, refused, response, eval_expression,
                   eval_base_time, eval_result>>
    /\ UNCHANGED <<dispatchVars, poolVars, workerVars>>

\* ... and returns when the pool threads have ended.
PoolStopReturn ==
    /\ stopper = "waiting"
    /\ AllDone
    /\ stopper' = "returned"
    /\ UNCHANGED <<stop_called, faults, shutdown, refused, response,
                   eval_expression, eval_base_time, eval_result>>
    /\ UNCHANGED <<dispatchVars, poolVars, workerVars>>

\* ------------------------------------------------ WorkerPool._execute_job
\* The cap of the exponential backoff, in seconds.
BackoffCap == 30

\* HTTP statuses a receiver answers with.
Statuses == {199, 200, 299, 300, 500}
\* Milliseconds a request takes.
Durations == {0, 25}
\* execution_id values (uuid4 in the source).
ExecIds == {1, 2}

\* How a requests.post call ends: a response, or one of the exceptions
\* _execute_job catches.
Outcomes ==
    {[kind |-> "response", status |-> st] : st \in Statuses}
    \cup {[kind |-> k, status |-> 0] :
              k \in {"Timeout", "RequestException", "Exception"}}

NoOutcome == [kind |-> "none", status |-> 0]

RECURSIVE Pow2(_)
Pow2(n) == IF n = 0 THEN 1 ELSE 2 * Pow2(n - 1)

Min(a, b) == IF a <= b THEN a ELSE b

\* (mutant of RetryAllowed: < for <=)
RetryAllowedStrict(a) == a < max_retries

\* _execute_job, line 68 and line 123: attempt <= self.max_retries
RetryAllowed(a) == a <= max_retries

\* (mutant of IsSuccessStatus: <= 300 for < 300)
IsSuccessStatusInclusive(st) == st >= 200 /\ st <= 300

\* _execute_job, line 91: 200 <= status_code < 300
IsSuccessStatus(st) == st >= 200 /\ st < 300

\* (mutant of BackoffSeconds: the cap left out)
BackoffSecondsUncapped(a) == Pow2(a)

\* _execute_job, line 124: backoff = min(2 ** attempt, 30)
BackoffSeconds(a) == Min(Pow2(a), BackoffCap)

\* _execute_job, lines 107, 111, 115, 119: last_error after a failed attempt.
ErrorText(o) ==
    CASE o.kind = "response" -> "HTTP " \o ToString(o.status)
      [] o.kind = "Timeout" -> "Request timeout"
      [] o.kind = "RequestException" -> "connection refused"
      [] OTHER -> ""

\* _execute_job, line 134: the http_status of the FAILED row.
FailedHttpStatus(o) == None

\* (mutant of AfterSuccess: the return left out, so the loop goes on)
AfterSuccessNoReturn == "backoff_check"

\* _execute_job, line 104: the worker returns after recording SUCCESS.
AfterSuccess == "done"

\* (mutant of uuid4: an id can be returned twice)
uuid4_repeating(used) == ExecIds

\* uuid.uuid4(): an id that no earlier call has returned.
uuid4(used) == ExecIds \ used

\* _execute_job, lines 56-66: assign execution_id and actual_start_time,
\* attempt = 0, last_error = None.
ExecuteBegin(eid) ==
    /\ wpc = "begin"
    /\ eid \in uuid4(drawn)
    /\ drawn' = drawn \cup {eid}
    /\ execution_id' = eid
    /\ actual_start_time' = clock
    /\ attempt' = 0
    /\ last_error' = None
    /\ wpc' = "loop_test"
    /\ UNCHANGED <<max_retries, firing, outcome, duration_ms, backoff,
                   job_executions, record_errors, posts, sleeps, seen2xx>>
    /\ UNCHANGED <<dispatchVars, poolVars, auxVars>>

\* _execute_job, lines 68-69: while attempt <= max_retries: attempt += 1
AttemptTest ==
    /\ wpc = "loop_test"
    /\ IF RetryAllowed(attempt)
       THEN /\ attempt' = attempt + 1
            /\ wpc' = "post"
       ELSE /\ wpc' = "record_failed"
            /\ UNCHANGED attempt
    /\ UNCHANGED <<max_retries, firing, execution_id, actual_start_time,
                   last_error, outcome, duration_ms, backoff, job_executions,
                   record_errors, posts, sleeps, seen2xx, drawn>>
    /\ UNCHANGED <<dispatchVars, poolVars, auxVars>>

\* _execute_job, lines 71-120: one requests.post and its classification.
\* A 2xx response goes on to record SUCCESS; anything else sets last_error.
Post(o, d) ==
    /\ wpc = "post"
    /\ outcome' = o
    /\ posts' = posts + 1
    /\ IF o.kind = "response" /\ IsSuccessStatus(o.status)
       THEN /\ duration_ms' = Some(d)
            /\ wpc' = "record_success"
            /\ UNCHANGED last_error
       ELSE /\ duration_ms' = IF o.kind = "response" THEN Some(d) ELSE duration_ms
            /\ last_error' = Some(ErrorText(o))
            /\ wpc' = "backoff_check"
    /\ seen2xx' = (seen2xx \/ (o.kind = "response" /\ o.status \in 200..299))
    /\ UNCHANGED <<max_retries, firing, execution_id, actual_start_time,
                   attempt, backoff, job_executions, record_errors, sleeps,
                   drawn>>
    /\ UNCHANGED <<dispatchVars, poolVars, auxVars>>

\* _execute_job, lines 123-125: sleep before the next attempt, unless this
\* was the last one.
BackoffCheck ==
    /\ wpc = "backoff_check"
    /\ IF RetryAllowed(attempt)
       THEN /\ backoff' = BackoffSeconds(attempt)
            /\ sleeps' = sleeps + 1
            /\ wpc' = "sleeping"
       ELSE /\ wpc' = "loop_test"
            /\ UNCHANGED <<backoff, sleeps>>
    /\ UNCHANGED <<max_retries, firing, execution_id, actual_start_time,
                   attempt, last_error, outcome, duration_ms, job_executions,
                   record_errors, posts, seen2xx, drawn>>
    /\ UNCHANGED <<dispatchVars, poolVars, auxVars>>

\* time.sleep(backoff) returns.
BackoffWake ==
    /\ wpc = "sleeping"
    /\ backoff' = 0
    /\ wpc' = "loop_test"
    /\ UNCHANGED <<max_retries, firing, execution_id, actual_start_time,
                   attempt, last_error, outcome, duration_ms, job_executions,
                   record_errors, posts, sleeps, seen2xx, drawn>>
    /\ UNCHANGED <<dispatchVars, poolVars, auxVars>>

\* WorkerPool._record_execution: insert the row and commit; any exception
\* (a store error, a foreign-key or primary-key violation) is logged and
\* swallowed, and nothing is inserted.
record_execution(table, row, insert_ok) ==
    IF insert_ok THEN Append(table, row) ELSE table

\* _execute_job, lines 93-104: record SUCCESS and return.
RecordSuccess(store_ok) ==
    /\ wpc = "record_success"
    /\ LET row == JobExecution(execution_id, firing, actual_start_time,
                               "SUCCESS", Some(outcome.status),
                               duration_ms, None)
           insert_ok == InsertAccepted(store_ok, job_executions, row, jobs_table)
       IN  /\ job_executions' = record_execution(job_executions, row, insert_ok)
           /\ record_errors' = IF insert_ok THEN record_errors
                               ELSE record_errors + 1
    /\ wpc' = AfterSuccess
    /\ UNCHANGED <<max_retries, firing, execution_id, actual_start_time,
                   attempt, last_error, outcome, duration_ms, backoff, posts,
                   sleeps, seen2xx, drawn>>
    /\ UNCHANGED <<dispatchVars, poolVars, auxVars>>

\* _execute_job, lines 127-138: all retries exhausted, record FAILED.
RecordFailed(store_ok) ==
    /\ wpc = "record_failed"
    /\ LET row == JobExecution(execution_id, firing, actual_start_time,
                               "FAILED", FailedHttpStatus(outcome),
                               None, last_error)
           insert_ok == InsertAccepted(store_ok, job_executions, row, jobs_table)
       IN  /\ job_executions' = record_execution(job_executions, row, insert_ok)
           /\ record_errors' = IF insert_ok THEN record_errors
                               ELSE record_errors + 1
    /\ wpc' = "done"
    /\ UNCHANGED <<max_retries, firing, execution_id, actual_start_time,
                   attempt, last_error, outcome, duration_ms, backoff, posts,
                   sleeps, seen2xx, drawn>>
    /\ UNCHANGED <<dispatchVars, poolVars, auxVars>>

\* ---------------------------------------------------- the catalog service
\* The request handlers of /jobs with their responses, and the rows that
\* pool threads record for the firings of catalog jobs.
\* What a request handler answered: the request's method and the status
\* code of the response.
Response(method, status) == [method |-> method, status |-> status]

\* The schedules that requests carry: the valid ones, the empty string
\* and strings that do not validate.
RequestExprs == Exprs \cup {Bogus, FiveFields}

\* (mutant of PostJobs: the row is created without validation)
PostJobsUnchecked(j, schedule) ==
    /\ ops < MaxRequests
    /\ ~jobs_table[j].exists
    /\ response' = Response("POST", 201)
    /\ jobs_table' = create_job(jobs_table, j, schedule)
    /\ ops' = ops + 1
    /\ UNCHANGED <<clock, priority_queue, lock, is_running, pc, jobs,
                   last_refresh, next_job, now, job, rcalls, lastSched,
                   quiesced, startJobs, firstIteration>>
    /\ UNCHANGED <<stop_called, faults, shutdown, stopper, refused,
                   eval_expression, eval_base_time, eval_result>>
    /\ UNCHANGED <<poolVars, workerVars>>

\* POST /jobs (create_job, jobs.py): 400 when the schedule does not
\* validate, else JobService.create_job and 201.
PostJobs(j, schedule) ==
    /\ ops < MaxRequests
    /\ ~jobs_table[j].exists
    /\ IF ~validate_cron(schedule)
       THEN /\ response' = Response("POST", 400)
            /\ jobs_table' = jobs_table
       ELSE /\ response' = Response("POST", 201)
            /\ jobs_table' = create_job(jobs_table, j, schedule)
    /\ ops' = ops + 1
    /\ UNCHANGED <<clock, priority_queue, lock, is_running, pc, jobs,
                   last_refresh, next_job, now, job, rcalls, lastSched,
                   quiesced, startJobs, firstIteration>>
    /\ UNCHANGED <<stop_called, faults, shutdown, stopper, refused,
                   eval_expression, eval_base_time, eval_result>>
    /\ UNCHANGED <<poolVars, workerVars>>

\* PUT /jobs/{id} (update_job, jobs.py): 400 when request.schedule is
\* truthy and does not validate; else JobService.update_job, 404 when it
\* finds no row, 200 otherwise.
PutJobs(j, schedule, active) ==
    /\ ops < MaxRequests
    /\ IF schedule # None /\ schedule[1] # "" /\ ~validate_cron(schedule[1])
       THEN /\ response' = Response("PUT", 400)
            /\ UNCHANGED <<jobs_table, quiesced>>
       ELSE IF ~jobs_table[j].exists
       THEN /\ response' = Response("PUT", 404)
            /\ UNCHANGED <<jobs_table, quiesced>>
       ELSE /\ response' = Response("PUT", 200)
            /\ jobs_table' = update_job(jobs_table, j, schedule, active)
            /\ quiesced' = [quiesced EXCEPT
                                ![j] = IF jobs_table'[j].active THEN FALSE ELSE @]
    /\ ops' = ops + 1
    /\ UNCHANGED <<clock, priority_queue, lock, is_running, pc, jobs,
                   last_refresh, next_job, now, job, rcalls, lastSched,
                   startJobs, firstIteration>>
    /\ UNCHANGED <<stop_called, faults, shutdown, stopper, refused,
                   eval_expression, eval_base_time, eval_result>>
    /\ UNCHANGED <<poolVars, workerVars>>

\* DELETE /jobs/{id} (delete_job, jobs.py): 404 when JobService.delete_job
\* finds no row, 204 otherwise.
DeleteJobs(j) ==
    /\ ops < MaxRequests
    /\ IF ~jobs_table[j].exists
       THEN /\ response' = Response("DELETE", 404)
            /\ jobs_table' = jobs_table
       ELSE /\ response' = Response("DELETE", 204)
            /\ jobs_table' = delete_job(jobs_table, j)
    /\ ops' = ops + 1
    /\ UNCHANGED <<clock, priority_queue, lock, is_running, pc, jobs,
                   last_refresh, next_job, now, job, rcalls, lastSched,
                   quiesced, startJobs, firstIteration>>
    /\ UNCHANGED <<stop_called, faults, shutdown, stopper, refused,
                   eval_expression, eval_base_time, eval_result>>
    /\ UNCHANGED <<poolVars, workerVars>>

\* WorkerPool._record_execution for a firing of job j: the row is
\* inserted with a fresh execution_id; when the insert raises (the store
\* fails, or no job row has this job_id) the error is logged.
RecordExecution(j, status, store_ok) ==
    /\ Len(job_executions) + record_errors < MaxExecutions
    /\ LET f == [job_id |-> j, api_url |-> ApiUrl, scheduled_time |-> clock]
           eid == Len(job_executions) + record_errors + 1
           row == JobExecution(eid, f, clock, status,
                               IF status = "SUCCESS" THEN Some(200) ELSE None,
                               IF status = "SUCCESS" THEN Some(0) ELSE None,
                               IF status = "SUCCESS" THEN None ELSE Some("HTTP 500"))
           insert_ok == InsertAccepted(store_ok, job_executions, row, jobs_table)
       IN  /\ job_executions' = record_execution(job_executions, row, insert_ok)
           /\ record_errors' = IF insert_ok THEN record_errors
                               ELSE record_errors + 1
    /\ UNCHANGED <<max_retries, wpc, firing, execution_id, actual_start_time,
                   attempt, last_error, outcome, duration_ms, backoff, posts,
                   sleeps, seen2xx, drawn>>
    /\ UNCHANGED <<dispatchVars, poolVars, auxVars>>

\* The sequence in reverse order.
RECURSIVE Reverse(_)
Reverse(seq) ==
    IF seq = <<>> THEN <<>> ELSE Append(Reverse(Tail(seq)), Head(seq))

\* The rows of rows that belong to job_id, in the order of rows.
RECURSIVE FilterByJob(_, _)
FilterByJob(rows, job_id) ==
    IF rows = <<>> THEN <<>>
    ELSE IF Head(rows).job_id = job_id
    THEN <<Head(rows)>> \o FilterByJob(Tail(rows), job_id)
    ELSE FilterByJob(Tail(rows), job_id)

\* ExecutionService.get_job_executions: the rows of the job, newest
\* first (rows are created in insertion order), at most `limit` of them.
get_job_executions(rows, job_id, limit) ==
    LET mine == Reverse(FilterByJob(rows, job_id))
    IN  SubSeq(mine, 1, IF Len(mine) < limit THEN Len(mine) ELSE limit)

\* The default of the `limit` query parameter of GET /executions/{id}.
DefaultLimit == 5

\* The sum of a sequence of integers.
RECURSIVE Sum(_)
Sum(seq) == IF seq = <<>> THEN 0 ELSE Head(seq) + Sum(Tail(seq))

\* int(x) for the quotient x = num / den of a float division, den > 0:
\* the fraction is dropped, towards zero.
IntOfQuotient(num, den) ==
    IF num >= 0 THEN num \div den ELSE -((-num) \div den)

\* round(success / total * 100, 2), in hundredths of a percent.
SuccessRate(success, total) == (success * 20000 + total) \div (2 * total)

\* The non-null duration_ms values of the rows, in order.
RECURSIVE DurationsOf(_)
DurationsOf(rows) ==
    IF rows = <<>> THEN <<>>
    ELSE IF Head(rows).duration_ms # None
    THEN <<Head(rows).duration_ms[1]>> \o DurationsOf(Tail(rows))
    ELSE DurationsOf(Tail(rows))

\* The drift of every row in milliseconds; scheduled_time and
\* actual_start_time are set in every row that _record_execution writes.
DriftsOf(rows) ==
    [i \in 1..Len(rows) |->
        (rows[i].actual_start_time - rows[i].scheduled_time) * 1000]

\* `int(avg) if avg else None` for avg = sum(values) / len(values), and
\* None when there is no value: an average of zero is falsy.
IntAverage(values) ==
    IF values = <<>> \/ Sum(values) = 0
    THEN None
    ELSE Some(IntOfQuotient(Sum(values), Len(values)))

\* ExecutionService.get_execution_stats.
get_execution_stats(rows, job_id) ==
    LET executions == FilterByJob(rows, job_id)
        total == Len(executions)
        success == Cardinality({i \in 1..total : executions[i].status = "SUCCESS"})
    IN  IF executions = <<>>
        THEN [job_id |-> job_id, total_executions |-> 0, success_count |-> 0,
              failure_count |-> 0, success_rate |-> 0,
              avg_duration_ms |-> None, avg_drift_ms |-> None]
        ELSE [job_id |-> job_id, total_executions |-> total,
              success_count |-> success, failure_count |-> total - success,
              success_rate |-> SuccessRate(success, total),
              avg_duration_ms |-> IntAverage(DurationsOf(executions)),
              avg_drift_ms |-> IntAverage(DriftsOf(executions))]

\* What GET /executions/{id}/stats answers with.
StatsResponse(status, body) ==
    [method |-> "GET", status |-> status, body |-> body]

\* GET /executions/{id}/stats (executions.py): 404 when there is no
\* execution and no job row, else the statistics.
GetExecutionStats(j) ==
    /\ response.method # "GET"
    /\ LET stats == get_execution_stats(job_executions, j)
       IN  response' =
               IF stats.total_executions = 0 /\ ~jobs_table[j].exists
               THEN StatsResponse(404, None)
               ELSE StatsResponse(200, Some(stats))
    /\ UNCHANGED <<stop_called, faults, shutdown, stopper, refused,
                   eval_expression, eval_base_time, eval_result>>
    /\ UNCHANGED <<dispatchVars, poolVars, workerVars>>


\* ------------------------------------------------------ the specifications
InitDispatch ==
    /\ clock = 0
    /\ ops = 0
    /\ priority_queue = <<>>
    /\ lock = "free"
    /\ is_running = FALSE
    /\ pc = [t \in Threads |-> IF t = "loop" THEN "run" ELSE "idle"]
    /\ jobs = [t \in Threads |-> <<>>]
    /\ last_refresh = 0
    /\ next_job = NoEntry
    /\ now = 0
    /\ job = NoEntry
    /\ rcalls = 0
    /\ lastSched = [j \in Jobs |-> -1]
    /\ quiesced = [j \in Jobs |-> FALSE]
    /\ startJobs = {}
    /\ firstIteration = TRUE

InitPool ==
    /\ queue = <<>>
    /\ busy = 0
    /\ in_flight = <<>>
    /\ run_now_calls = 0

\* Nothing has been stopped, no request has been answered, and the
\* evaluator has not been called.
InitAux ==
    /\ stop_called = FALSE
    /\ faults = 0
    /\ shutdown = FALSE
    /\ stopper = "idle"
    /\ refused = 0
    /\ response = Response("", 0)
    /\ eval_expression = ""
    /\ eval_base_time = 0
    /\ eval_result = None

\* The pool thread holds no firing.
InitWorkerIdle ==
    /\ max_retries = 3
    /\ wpc = "idle"
    /\ firing = [job_id |-> 0, api_url |-> "", scheduled_time |-> 0]
    /\ execution_id = 0
    /\ actual_start_time = 0
    /\ attempt = 0
    /\ last_error = None
    /\ outcome = NoOutcome
    /\ duration_ms = None
    /\ backoff = 0
    /\ job_executions = <<>>
    /\ record_errors = 0
    /\ posts = 0
    /\ sleeps = 0
    /\ seen2xx = FALSE
    /\ drawn = {}

\* The catalogs a run starts from: each job is absent or active with a
\* valid schedule; there is no temporary job yet.
Catalogs ==
    {t \in [JobIds -> {NoJob} \cup {Job(s, ApiUrl, TRUE) : s \in ValidExprs}] :
        \A d \in DebugJobs : t[d] = NoJob}

vars == <<dispatchVars, poolVars, workerVars, auxVars>>

\* The dispatch core: the loop thread, a refresh request handler, the
\* catalog requests and the clock.
Init ==
    /\ InitDispatch
    /\ jobs_table \in Catalogs
    /\ InitPool
    /\ InitWorkerIdle
    /\ InitAux

LoopNext ==
    \/ RunBegin
    \/ LoopTest
    \/ LoopRefreshCheck
    \/ RefreshLoad("loop")
    \/ RefreshRebuild("loop")
    \/ LoopRefreshed
    \/ LoopCheckQueue
    \/ LoopDueCheck
    \/ LoopPop
    \/ LoopSubmit
    \/ LoopReschedule

ApiNext ==
    \/ RefreshCall
    \/ RefreshLoad("api")
    \/ RefreshRebuild("api")

CatalogNext ==
    \/ \E j \in Jobs, s \in Exprs : CreateJob(j, s)
    \/ \E j \in Jobs, s \in {None} \cup {Some(e) : e \in Exprs},
          a \in {None, Some(TRUE), Some(FALSE)} : UpdateJob(j, s, a)
    \/ \E j \in Jobs : DeleteJob(j)

Next ==
    \/ Tick
    \/ LoopNext
    \/ ApiNext
    \/ CatalogNext

Spec == Init /\ [][Next]_vars

\* The worker pool's queue: firings submitted by POST /debug/execute and
\* taken by the pool threads.
PoolNext ==
    \/ \E insert_ok \in BOOLEAN : RunNow(insert_ok)
    \/ ExecutorStart
    \/ \E i \in 1..max_workers, status \in {"SUCCESS", "FAILED"},
          store_ok \in BOOLEAN : ExecutorFinish(i, status, store_ok)
    \/ PoolStop
    \/ PoolStopReturn

PoolSpec == Init /\ [][PoolNext]_vars

\* The catalog service: requests of every kind, valid or not, for
\* present and absent jobs, and the recording of executions.
ServiceNext ==
    \/ \E j \in Jobs, s \in RequestExprs : PostJobs(j, s)
    \/ \E j \in Jobs, s \in {None} \cup {Some(e) : e \in RequestExprs},
          a \in {None, Some(TRUE), Some(FALSE)} : PutJobs(j, s, a)
    \/ \E j \in Jobs : DeleteJobs(j)
    \/ \E j \in Jobs, status \in {"SUCCESS", "FAILED"},
          store_ok \in BOOLEAN : RecordExecution(j, status, store_ok)

ServiceSpec == Init /\ [][ServiceNext]_vars

\* The rows a store can hold for the catalog jobs: a SUCCESS row has a
\* duration, a FAILED row has none, and the worker began one or two
\* seconds after the scheduled instant.
StatsRow(eid, j, status, duration, drift) ==
    JobExecution(eid, [job_id |-> j, api_url |-> ApiUrl, scheduled_time |-> 0],
                 drift, status,
                 IF status = "SUCCESS" THEN Some(200) ELSE None,
                 duration,
                 IF status = "SUCCESS" THEN None ELSE Some("HTTP 500"))

StatsRows(eid) ==
    {StatsRow(eid, j, "SUCCESS", Some(d), drift) :
         j \in Jobs, d \in Durations \cup {10}, drift \in {1, 2}}
    \cup {StatsRow(eid, j, "FAILED", None, drift) : j \in Jobs, drift \in {1, 2}}

StatsStores ==
    UNION {{rows \in [1..n -> UNION {StatsRows(eid) : eid \in 1..n}] :
               \A i \in 1..n : rows[i].execution_id = i} : n \in 0..MaxRows}

\* The statistics as a function of the store: one request for every
\* store and every job, one of which has no row in the catalog.
StatsInit ==
    /\ InitDispatch
    /\ jobs_table \in {[j \in JobIds |-> IF j \in present
                                          THEN Job(EverySecond, ApiUrl, TRUE)
                                          ELSE NoJob] : present \in {{1}, {1, 2}}}
    /\ InitPool
    /\ InitAux
    /\ max_retries = 3
    /\ wpc = "idle"
    /\ firing = [job_id |-> 0, api_url |-> "", scheduled_time |-> 0]
    /\ execution_id = 0
    /\ actual_start_time = 0
    /\ attempt = 0
    /\ last_error = None
    /\ outcome = NoOutcome
    /\ duration_ms = None
    /\ backoff = 0
    /\ job_executions \in {rows \in StatsStores :
                               \A i \in 1..Len(rows) :
                                   jobs_table[rows[i].job_id].exists}
    /\ record_errors = 0
    /\ posts = 0
    /\ sleeps = 0
    /\ seen2xx = FALSE
    /\ drawn = {}

StatsNext == \E j \in Jobs : GetExecutionStats(j)

StatsSpec == StatsInit /\ [][StatsNext]_vars

\* The CRON evaluator as a function: one call of get_next_run_time for
\* every expression and base instant, and its outcome.
CronInit ==
    /\ InitDispatch
    /\ jobs_table = [j \in JobIds |-> NoJob]
    /\ InitPool
    /\ InitWorkerIdle
    /\ stop_called = FALSE
    /\ faults = 0
    /\ shutdown = FALSE
    /\ stopper = "idle"
    /\ refused = 0
    /\ response = Response("", 0)
    /\ eval_expression \in CronExprs
    /\ eval_base_time \in BaseTimes
    /\ eval_result = None

\* The call returns an instant or raises ValueError.
GetNextRunTime ==
    /\ eval_result = None
    /\ eval_result' = Some(get_next_run_time(eval_expression, eval_base_time))
    /\ UNCHANGED <<stop_called, faults, shutdown, stopper, refused, response,
                   eval_expression, eval_base_time>>
    /\ UNCHANGED <<dispatchVars, poolVars, workerVars>>

CronNext == GetNextRunTime

CronSpec == CronInit /\ [][CronNext]_vars

\* One firing in the hands of a pool thread, for every max_retries up to
\* the bound and every way its attempts can end.
WorkerInit ==
    /\ InitDispatch
    /\ jobs_table = [j \in JobIds |->
                        IF j \in Jobs THEN Job(EverySecond, ApiUrl, TRUE) ELSE NoJob]
    /\ InitPool
    /\ InitAux
    /\ max_retries \in 0..MaxRetriesBound
    /\ wpc = "begin"
    /\ firing \in {[job_id |-> j, api_url |-> ApiUrl, scheduled_time |-> 0] :
                       j \in Jobs}
    /\ execution_id = 0
    /\ actual_start_time = 0
    /\ attempt = 0
    /\ last_error = None
    /\ outcome = NoOutcome
    /\ duration_ms = None
    /\ backoff = 0
    /\ job_executions = <<>>
    /\ record_errors = 0
    /\ posts = 0
    /\ sleeps = 0
    /\ seen2xx = FALSE
    /\ drawn = {}

WorkerNext ==
    \/ \E eid \in ExecIds : ExecuteBegin(eid)
    \/ AttemptTest
    \/ \E o \in Outcomes, d \in Durations : Post(o, d)
    \/ BackoffCheck
    \/ BackoffWake
    \/ \E store_ok \in BOOLEAN : RecordSuccess(store_ok)
    \/ \E store_ok \in BOOLEAN : RecordFailed(store_ok)

WorkerSpec == WorkerInit /\ [][WorkerNext]_vars

\* WorkerPool.submit_job for a firing of catalog job j that is due now.
SubmitJob(j) ==
    /\ wpc # "begin"
    /\ Len(queue) + Cardinality(drawn) < MaxFirings
    /\ queue' = submit_job(queue, j, ApiUrl, clock)
    /\ UNCHANGED <<busy, in_flight, run_now_calls>>
    /\ UNCHANGED <<dispatchVars, workerVars, auxVars>>

\* The pool thread, free, takes the firing at the head of the work queue
\* and calls _execute_job on it; the locals of the call are not yet
\* assigned.
TakeFiring ==
    /\ wpc \in {"idle", "done"}
    /\ queue # <<>>
    /\ firing' = Head(queue)
    /\ queue' = Tail(queue)
    /\ wpc' = "begin"
    /\ execution_id' = 0
    /\ actual_start_time' = 0
    /\ attempt' = 0
    /\ last_error' = None
    /\ outcome' = NoOutcome
    /\ duration_ms' = None
    /\ backoff' = 0
    /\ posts' = 0
    /\ sleeps' = 0
    /\ seen2xx' = FALSE
    /\ UNCHANGED <<max_retries, job_executions, record_errors, drawn>>
    /\ UNCHANGED <<busy, in_flight, run_now_calls>>
    /\ UNCHANGED <<dispatchVars, auxVars>>

\* The JSON body of the requests.post call of an attempt.
PostBody ==
    [job_id |-> firing.job_id, execution_id |-> execution_id,
     scheduled_time |-> firing.scheduled_time,
     actual_time |-> actual_start_time]

\* A pool thread with one retry that takes the firings submitted while
\* time passes; the receiver answers 200 or 500.
FiringsInit ==
    /\ InitDispatch
    /\ jobs_table = [j \in JobIds |->
                        IF j \in Jobs THEN Job(EverySecond, ApiUrl, TRUE) ELSE NoJob]
    /\ InitPool
    /\ InitAux
    /\ max_retries = 1
    /\ wpc = "idle"
    /\ firing = [job_id |-> 0, api_url |-> "", scheduled_time |-> 0]
    /\ execution_id = 0
    /\ actual_start_time = 0
    /\ attempt = 0
    /\ last_error = None
    /\ outcome = NoOutcome
    /\ duration_ms = None
    /\ backoff = 0
    /\ job_executions = <<>>
    /\ record_errors = 0
    /\ posts = 0
    /\ sleeps = 0
    /\ seen2xx = FALSE
    /\ drawn = {}

FiringsNext ==
    \/ Tick
    \/ \E j \in Jobs : SubmitJob(j)
    \/ TakeFiring
    \/ \E eid \in ExecIds : ExecuteBegin(eid)
    \/ AttemptTest
    \/ \E o \in {[kind |-> "response", status |-> st] : st \in {200, 500}} :
           Post(o, 0)
    \/ BackoffCheck
    \/ BackoffWake
    \/ \E store_ok \in BOOLEAN : RecordSuccess(store_ok)
    \/ \E store_ok \in BOOLEAN : RecordFailed(store_ok)

FiringsSpec == FiringsInit /\ [][FiringsNext]_vars

\* One firing in the hands of a pool thread whose store already holds a
\* row, recorded earlier for either job under one of the execution ids
\* the thread can draw.
EarlierRows ==
    {JobExecution(eid, [job_id |-> j, api_url |-> ApiUrl, scheduled_time |-> 0],
                  0, "SUCCESS", Some(200), Some(25), None) :
         eid \in ExecIds, j \in Jobs}

RerecordInit ==
    /\ InitDispatch
    /\ jobs_table = [j \in JobIds |->
                        IF j \in Jobs THEN Job(EverySecond, ApiUrl, TRUE) ELSE NoJob]
    /\ InitPool
    /\ InitAux
    /\ max_retries \in 0..1
    /\ wpc = "begin"
    /\ firing \in {[job_id |-> j, api_url |-> ApiUrl, scheduled_time |-> 0] :
                       j \in Jobs}
    /\ execution_id = 0
    /\ actual_start_time = 0
    /\ attempt = 0
    /\ last_error = None
    /\ outcome = NoOutcome
    /\ duration_ms = None
    /\ backoff = 0
    /\ job_executions \in {<<row>> : row \in EarlierRows}
    /\ record_errors = 0
    /\ posts = 0
    /\ sleeps = 0
    /\ seen2xx = FALSE
    /\ drawn = {}

RerecordSpec == RerecordInit /\ [][WorkerNext]_vars

\* The dispatch core on its own, with no explicit refresh request, under
\* the scheduling the code relies on: the loop thread keeps running, time
\* keeps passing, and what the loop does between two sleeps takes less
\* than a second, so that a second ends only while the loop sleeps.
\* Time has no end: when the clock reaches MaxTime every instant the state
\* holds is renamed Shift seconds earlier, Shift being a common multiple of
\* the schedules' periods, so that every schedule matches the same
\* instants before and after. The loop is asleep, so its locals are dead
\* and are set back; the firings submitted so far have been taken by
\* workers, and a firing dispatched more than a window ago is forgotten.
\* A last_refresh already refresh_interval or more in the past is kept at
\* that distance: the test of line 97 cannot tell the difference.
Shift == SecondStep(EverySecond) * SecondStep(EveryOtherSecond)

Earlier(t) == IF t < Shift THEN -1 ELSE t - Shift

TickWrap ==
    /\ clock = MaxTime
    /\ clock' = MaxTime + 1 - Shift
    /\ pc' = [pc EXCEPT !["loop"] = "loop"]
    /\ lock' = IF pc["loop"] = "sleep_locked" THEN "free" ELSE lock
    /\ priority_queue' =
           [i \in 1..Len(priority_queue) |->
               [priority_queue[i] EXCEPT !.next_run = @ - Shift]]
    /\ last_refresh' =
           IF last_refresh - Shift < clock' - refresh_interval
           THEN clock' - refresh_interval
           ELSE last_refresh - Shift
    /\ lastSched' = [j \in Jobs |-> Earlier(lastSched[j])]
    /\ LoopLocalsReset
    /\ queue' = <<>>
    /\ UNCHANGED <<jobs_table, ops, is_running, jobs, rcalls, quiesced,
                   startJobs, firstIteration, busy, in_flight,
                   run_now_calls>>
    /\ UNCHANGED <<workerVars, auxVars>>

FairTick ==
    /\ pc["loop"] \in {"sleep", "sleep_locked", "error_sleep"}
    /\ \/ Tick
       \/ TickWrap

FairNext ==
    \/ FairTick
    \/ LoopNext
    \/ CatalogNext

FairSpec == Init /\ [][FairNext]_vars /\ WF_vars(LoopNext) /\ WF_vars(FairTick)

\* The life of the dispatcher: the loop under the same scheduling, with
\* refresh requests, jobs being deleted, exceptions raised in the loop
\* body, and stop().
LifeNext ==
    \/ FairTick
    \/ LoopNext
    \/ ApiNext
    \/ \E j \in Jobs : DeleteJob(j)
    \/ LoadFails
    \/ SubmitFails
    \/ Stop

LifeSpec == Init /\ [][LifeNext]_vars /\ WF_vars(LoopNext) /\ WF_vars(FairTick)

\* ------------------------------------------------------------- the claims
\* The rows of job_executions written for the firing the worker holds.
FiringRows ==
    SelectSeq(job_executions, LAMBDA r : r.execution_id = execution_id)

\* What a job's schedule period is, and whether it is shorter than the
\* refresh interval.
ShortPeriod(j) ==
    ActiveValid(j) /\ SecondStep(jobs_table[j].schedule) < refresh_interval

\* The loop is handing a firing of job j to the worker pool.
Dispatching(j) == pc["loop"] = "submit" /\ job.job_id = j

\* C1: for every job, under every interleaving of the dispatch loop with
\* refresh_schedule(), the firing handed to the worker pool has a
\* scheduled_time strictly later than that of the job's previous firing.
C1_DispatchMonotonic ==
    pc["loop"] = "submit" => job.next_run > lastSched[job.job_id]

\* C2 (as claimed): when a firing's attempt sequence has terminated,
\* exactly one row with its execution_id has been written, SUCCESS if some
\* attempt returned 2xx and FAILED otherwise.
C2_ExactlyOneRow ==
    wpc = "done" =>
        /\ Len(FiringRows) = 1
        /\ FiringRows[1].status = IF seen2xx THEN "SUCCESS" ELSE "FAILED"

\* C2 (amended): at most one row is ever written for a firing, and only
\* when its attempt sequence terminates: exactly one when the insert
\* succeeds (SUCCESS if some attempt returned 2xx, FAILED otherwise), none
\* when the insert raises, which is logged once; and no attempt is made
\* after the first 2xx.
C2_OneRowUnlessInsertFails ==
    /\ Len(job_executions) <= 1
    /\ wpc # "done" => job_executions = <<>>
    /\ wpc = "post" => ~seen2xx
    /\ wpc = "done" =>
          IF record_errors = 0
          THEN /\ Len(FiringRows) = 1
               /\ FiringRows[1].status = IF seen2xx THEN "SUCCESS" ELSE "FAILED"
          ELSE /\ record_errors = 1
               /\ job_executions = <<>>

\* C2 witness: a firing that succeeded on a retry has its one SUCCESS row.
C2_Witness ==
    /\ wpc = "done"
    /\ posts >= 2
    /\ Len(FiringRows) = 1
    /\ FiringRows[1].status = "SUCCESS"

\* C3: a firing makes at most max_retries + 1 POSTs, and exactly that many
\* when every attempt fails, whatever the kind of failure.
C3_BoundedRetry ==
    /\ posts <= max_retries + 1
    /\ (wpc = "done" /\ ~seen2xx) => posts = max_retries + 1

\* C3 witness: a firing with retries whose attempts all failed, the last
\* one by a timeout, has terminated.
C3_Witness ==
    /\ wpc = "done"
    /\ ~seen2xx
    /\ max_retries >= 2
    /\ posts = max_retries + 1
    /\ outcome.kind = "Timeout"

\* C4: when every attempt failed and the final attempt returned a non-2xx
\* response with status s, the FAILED row has http_status = s, a null
\* duration_ms and a non-null error_message; http_status is null on a
\* FAILED row only when the final attempt ended without a response.
C4_FailedRowKeepsHttpStatus ==
    (wpc = "done" /\ FiringRows # <<>> /\ FiringRows[1].status = "FAILED") =>
        /\ FiringRows[1].duration_ms = None
        /\ FiringRows[1].error_message # None
        /\ FiringRows[1].http_status =
               IF outcome.kind = "response" THEN Some(outcome.status) ELSE None

\* C5: every row written satisfies: SUCCESS implies http_status in
\* [200, 300), duration_ms non-null and error_message null; FAILED implies
\* error_message non-null and duration_ms null.
C5_RowWellFormed ==
    \A i \in 1..Len(job_executions) :
        LET r == job_executions[i]
        IN  /\ r.status \in {"SUCCESS", "FAILED"}
            /\ r.status = "SUCCESS" =>
                  /\ r.http_status # None
                  /\ r.http_status[1] >= 200
                  /\ r.http_status[1] < 300
                  /\ r.duration_ms # None
                  /\ r.error_message = None
            /\ r.status = "FAILED" =>
                  /\ r.error_message # None
                  /\ r.duration_ms = None

\* C5 witness: a FAILED row written by a pool built with max_retries = 0.
C5_Witness ==
    /\ max_retries = 0
    /\ job_executions # <<>>
    /\ job_executions[1].status = "FAILED"

\* C6: a backoff sleep is taken only after a failed attempt k <= max_retries
\* and lasts min(2^k, 30) seconds, never more than 30; none is taken after
\* a successful attempt or after the final failed attempt, and one is
\* taken after every other failed attempt.
C6_Backoff ==
    /\ wpc = "sleeping" =>
          /\ attempt >= 1
          /\ attempt <= max_retries
          /\ ~seen2xx
          /\ backoff = (IF attempt >= 5 THEN 30 ELSE Pow2(attempt))
          /\ backoff <= 30
          /\ sleeps = attempt
    /\ wpc = "done" => sleeps = posts - 1

\* C6 witness: the backoff after the fifth failed attempt, capped at 30.
C6_Witness ==
    /\ wpc = "sleeping"
    /\ attempt = 5
    /\ backoff = 30

\* C7: the firings submitted to the execution core and not yet started by
\* a worker never number more than the queue bound, 4 x W.
C7_BoundedSubmission == Len(queue) <= QueueBound

\* C8: when the dispatch loop starts its first iteration, every job that
\* was active with a valid schedule when run() began is in the heap.
C8_StartupReconcile ==
    (pc["loop"] = "check_queue" /\ firstIteration) => startJobs \subseteq HeapJobIds

C10_NoDispatchAfterDeactivation ==
    [][(LoopPop /\ priority_queue # <<>>)
           => ~quiesced[heappop_item(priority_queue).job_id]]_vars

\* Instant r is the first after t that matches the expression.
FirstMatchAfter(expression, t, r) ==
    /\ r > t
    /\ Matches(expression, r)
    /\ \A u \in (t + 1)..(r - 1) : ~Matches(expression, u)

Pairs(heap) == {<<heap[i].job_id, heap[i].next_run>> : i \in 1..Len(heap)}

\* The heap is as a reconciliation of the present catalog left it at some
\* earlier moment: nothing has been dispatched and the catalog has not
\* changed since.
FreshlyReconciled ==
    \E js \in load_active_jobs, t0 \in 0..clock :
        priority_queue = PushAll(<<>>, js, t0)

\* C12: a reconciliation that follows another one, with no catalog change
\* and no dispatch in between, leaves the heap with the same set of
\* job_ids and as many entries, and with the same (job_id, next_run) pairs
\* when no entry's fire instant has been reached between the two.
C12_ReconcileIdempotent ==
    [][\A t \in Threads :
          (RefreshRebuild(t) /\ FreshlyReconciled /\ jobs[t] \in load_active_jobs)
              => /\ HeapJobIds' = HeapJobIds
                 /\ Len(priority_queue') = Len(priority_queue)
                 /\ (\A i \in 1..Len(priority_queue) :
                        priority_queue[i].next_run > clock)
                       => Pairs(priority_queue') = Pairs(priority_queue)]_vars

\* C12 witness: a reconciliation by a request handler and one by the loop
\* have both returned, the catalog has never changed and nothing has been
\* dispatched; the heap holds the jobs.
C12_Witness ==
    /\ pc["loop"] = "refreshed"
    /\ pc["api"] = "idle"
    /\ rcalls = 1
    /\ ops = 0
    /\ \A j \in Jobs : lastSched[j] = -1
    /\ Len(priority_queue) = 2

\* C13: an exception raised in an iteration of the loop is caught: the
\* loop sleeps one tick and then tests its condition again, and it has
\* exited only if stop() has been called.
C13_LoopSurvivesExceptions ==
    /\ [](pc["loop"] = "exited" => stop_called)
    /\ (pc["loop"] = "error_sleep") ~> (pc["loop"] = "loop")

\* C13 witness: after an exception raised by the catalog read or by
\* submit, the running loop is handing a firing to the worker pool.
C13_Witness ==
    /\ faults >= 1
    /\ is_running
    /\ ~stop_called
    /\ pc["loop"] = "submit"

\* C14: after stop() is called, the loop eventually exits and is_running
\* is false, whenever the call is made after the loop thread was started.
C14_StopHonoured ==
    stop_called ~> (pc["loop"] = "exited" /\ ~is_running)

\* The firings the executor has accepted.
Accepted == run_now_calls - refused

\* C15 (as claimed): once stop() has been called the work queue takes no
\* new firing, and when stop() has returned every firing accepted before
\* has left the queue, has been executed to its end, and has its
\* Execution row.
C15_StopDrainsAndRecords ==
    /\ [][shutdown => Len(queue') <= Len(queue)]_vars
    /\ [](stopper = "returned" =>
             /\ AllDone
             /\ Len(job_executions) = Accepted)

\* C15 (amended): ... every firing accepted before has left the queue and
\* has been executed to its end, where it has its Execution row or, when
\* the insert raised, a logged error.
C15_StopDrains ==
    /\ [][shutdown => Len(queue') <= Len(queue)]_vars
    /\ [](stopper = "returned" =>
             /\ AllDone
             /\ Len(job_executions) + record_errors = Accepted)

\* C15 witness: stop() has returned after two firings that were waiting
\* or running were executed and recorded, and a later one was refused.
C15_Witness ==
    /\ stopper = "returned"
    /\ Len(job_executions) >= 2
    /\ refused >= 1

\* C16: DELETE /jobs/{id} changes nothing but the row's active flag; no
\* step of the catalog service (create, update, delete, record an
\* execution) removes a job row or an execution row, so what
\* get_job_executions returns for the job, for the default limit and
\* every smaller one, is the same after the delete as before it.
C16_SoftDeleteKeepsRows ==
    [][/\ \A j \in JobIds : jobs_table[j].exists => jobs_table'[j].exists
       /\ Len(job_executions') >= Len(job_executions)
       /\ SubSeq(job_executions', 1, Len(job_executions)) = job_executions
       /\ \A j \in Jobs :
              (DeleteJobs(j) /\ jobs_table[j].exists) =>
                  /\ jobs_table' = [jobs_table EXCEPT ![j].active = FALSE]
                  /\ \A limit \in 1..DefaultLimit :
                         get_job_executions(job_executions', j, limit)
                             = get_job_executions(job_executions, j, limit)]_vars

\* C16 witness: a job with two recorded executions has been deleted: its
\* row is still there, inactive, and its executions are listed.
C16_Witness ==
    \E j \in Jobs :
        /\ response = Response("DELETE", 204)
        /\ jobs_table[j].exists
        /\ ~jobs_table[j].active
        /\ Len(get_job_executions(job_executions, j, DefaultLimit)) = 2
        /\ Len(get_job_executions(job_executions, j, 1)) = 1

\* C17: whatever POST /jobs and PUT /jobs/{id} requests have been
\* answered, the schedule of every job row validates.
C17_SchedulesValidate ==
    \A j \in Jobs : jobs_table[j].exists => validate_cron(jobs_table[j].schedule)

\* C18: a POST /jobs whose schedule does not validate is answered 400 and
\* leaves the jobs table as it was; a row comes into being only with a
\* schedule that validates.
C18_InvalidPostRejected ==
    [][/\ \A j \in Jobs, s \in RequestExprs :
              (PostJobs(j, s) /\ ~validate_cron(s)) =>
                  /\ response' = Response("POST", 400)
                  /\ jobs_table' = jobs_table
       /\ \A j \in Jobs :
              (~jobs_table[j].exists /\ jobs_table'[j].exists) =>
                  validate_cron(jobs_table'[j].schedule)]_vars

\* C18 witness: the first request was a POST that was answered 400, and
\* the catalog is the one the run started from.
C18_Witness ==
    /\ response = Response("POST", 400)
    /\ ops = 1
    /\ jobs_table \in Catalogs
    /\ \E j \in Jobs : ~jobs_table[j].exists

\* The call of get_next_run_time has ended.
Evaluated == eval_result # None

MatchesSecondFirst(expression, t) ==
    LET parts == split(expression)
    IN  /\ FieldAllows(parts[1], SECOND_FIELD, SecondOf(t))
        /\ FieldAllows(parts[2], MINUTE_FIELD, MinuteOf(t))
        /\ FieldAllows(parts[3], HOUR_FIELD, HourOf(t))

\* C20: for an expression that validates, the result r of
\* get_next_run_time(e, t) matches all the fields of e, read as second,
\* minute, hour, day of month, month, day of week, and no instant
\* strictly between t and r does.
C20_SmallestMatch ==
    (Evaluated /\ validate_cron(eval_expression)) =>
        LET r == eval_result[1][1]
        IN  /\ MatchesSecondFirst(eval_expression, r)
            /\ \A u \in (eval_base_time + 1)..(r - 1) :
                   ~MatchesSecondFirst(eval_expression, u)

\* C21: for the schedule "0 */5 * * * *" every result of
\* get_next_run_time has second 0 and a minute divisible by 5 (the fields
\* are read as second, minute, hour, ...), so that two successive
\* results are five minutes apart.
C21_FiveMinuteCadence ==
    (Evaluated /\ eval_expression = EveryFiveMinutes) =>
        LET r == eval_result[1][1]
        IN  /\ SecondOf(r) = 0
            /\ MinuteOf(r) % 5 = 0

\* The statistics in the latest response, and the rows of its job.
StatsAnswered == response.method = "GET" /\ response.status = 200

\* C22: the statistics of a job with rows: total is the number of its
\* rows, success the number of SUCCESS rows, failure the rest,
\* success_rate their ratio in percent (to two decimals), avg_duration_ms
\* the integer mean of the non-null durations and null only when there
\* is none, avg_drift_ms the integer mean of the drifts of all rows.
C22_Stats ==
    StatsAnswered =>
        LET stats == response.body[1]
            mine == FilterByJob(job_executions, stats.job_id)
            total == Len(mine)
            success == Cardinality({i \in 1..total : mine[i].status = "SUCCESS"})
            durations == DurationsOf(mine)
            drifts == DriftsOf(mine)
        IN  total > 0 =>
              /\ stats.total_executions = total
              /\ stats.success_count = success
              /\ stats.failure_count = total - success
              /\ stats.success_rate = SuccessRate(success, total)
              /\ stats.avg_duration_ms =
                     IF durations = <<>> THEN None
                     ELSE Some(Sum(durations) \div Len(durations))
              /\ stats.avg_drift_ms = Some(Sum(drifts) \div Len(drifts))

\* The pool thread takes the step that records the firing.
Records ==
    /\ wpc \in {"record_success", "record_failed"}
    /\ wpc' # wpc

\* C23: when the store already holds a row with the firing's
\* execution_id, recording the firing leaves the store as it is (the
\* row there is unchanged and no row is added) and the worker ends as
\* it does after any recording.
C23_RecordIdempotent ==
    [][(/\ Records
        /\ \E i \in 1..Len(job_executions) :
               job_executions[i].execution_id = execution_id) =>
           /\ job_executions' = job_executions
           /\ wpc' = "done"]_vars

\* C23 witness: the worker is done, the store holds the one earlier row,
\* which has the firing's execution_id, and the failed insert was logged.
C23_Witness ==
    /\ wpc = "done"
    /\ job_executions \in {<<row>> : row \in EarlierRows}
    /\ job_executions[1].execution_id = execution_id
    /\ record_errors = 1
    /\ seen2xx

\* C24: a failed insert of the firing's row is tried a second time: the
\* worker ends with the row written, or with two failed inserts logged.
C24_InsertRetriedOnce ==
    wpc = "done" => (Len(job_executions) = 1 \/ record_errors = 2)

\* The firings of job d that the pool holds, queued or being executed.
InPool(d) ==
    \/ \E i \in 1..Len(queue) : queue[i].job_id = d
    \/ \E i \in 1..Len(in_flight) : in_flight[i].job_id = d

\* C25: every execution row references a job row that exists, so a
\* firing whose job row is missing leaves no row; and the job row of a
\* debug firing is never created after the firing was handed to the
\* pool: it is there, if at all, when the firing is queued.
C25_RowsReferenceJobs ==
    /\ [](\A i \in 1..Len(job_executions) :
              jobs_table[job_executions[i].job_id].exists)
    /\ [][\A d \in DebugJobs :
              (~jobs_table[d].exists /\ jobs_table'[d].exists) =>
                  /\ ~InPool(d)
                  /\ \A i \in 1..Len(job_executions) :
                         job_executions[i].job_id # d]_vars

\* C25 witness: two debug firings have finished; the job row of one
\* could not be created and it left no execution row but a logged error,
\* the other has its job row, inactive, and its execution row.
C25_Witness ==
    \E d, e \in DebugJobs :
        /\ d - 3 < run_now_calls
        /\ ~jobs_table[d].exists
        /\ ~InPool(d)
        /\ \A i \in 1..Len(job_executions) : job_executions[i].job_id # d
        /\ record_errors >= 1
        /\ jobs_table[e].exists
        /\ ~jobs_table[e].active
        /\ \E i \in 1..Len(job_executions) : job_executions[i].job_id = e

\* C26: under every interleaving of the loop's peek and pop with
\* refresh_schedule(), the entry the loop has popped and hands to the
\* worker pool was due at the `now` of the iteration: next_run <= now.
C26_DispatchedEntryIsDue ==
    pc["loop"] = "submit" => job.next_run <= now

\* No thread is inside refresh_schedule().
NoRefreshRunning ==
    \A t \in Threads : pc[t] \notin {"refresh_load", "refresh_rebuild"}

\* C27: when the calls of refresh_schedule() have all returned, the heap
\* reflects the latest catalog read: a job that was set inactive before
\* the read of a reconciliation that has completed, and that the loop
\* has never dispatched (so that only a rebuild can have inserted it),
\* has no entry in the heap.
C27_NewerSnapshotWins ==
    \A j \in Jobs :
        (quiesced[j] /\ lastSched[j] = -1 /\ NoRefreshRunning)
            => j \notin HeapJobIds

\* The popped entry is overdue by more than one period of its schedule.
Overdue == now - job.next_run > SecondStep(job.schedule)

\* C28: when the popped entry is overdue by more than one period, the
\* loop hands one firing to the worker pool, with the entry's next_run as
\* scheduled_time, and pushes one entry for the job whose next_run is the
\* first instant after now that matches the schedule; no firing is
\* issued for the instants in between.
C28_NoCatchUp ==
    [][/\ (LoopSubmit /\ Overdue) =>
              queue' = Append(queue, [job_id |-> job.job_id,
                                      api_url |-> job.api_url,
                                      scheduled_time |-> job.next_run])
       /\ (LoopReschedule /\ Overdue) =>
              /\ queue' = queue
              /\ Len(priority_queue') = Len(priority_queue) + 1
              /\ \E k \in 1..Len(priority_queue') :
                     /\ priority_queue'[k].job_id = job.job_id
                     /\ priority_queue'[k].next_run > now
                     /\ FirstMatchAfter(job.schedule, now,
                                        priority_queue'[k].next_run)
                     /\ Pairs(Without(priority_queue', k))
                            = Pairs(priority_queue)]_vars

\* C28 witness: the loop has dispatched an entry two periods late and
\* has pushed the job back for the instant after now.
C28_Witness ==
    /\ pc["loop"] = "loop"
    /\ \E i \in 1..Len(queue) :
           /\ queue[i].scheduled_time = 1
           /\ jobs_table[queue[i].job_id].schedule = EverySecond
           /\ clock = 3
           /\ \E k \in 1..Len(priority_queue) :
                  /\ priority_queue[k].job_id = queue[i].job_id
                  /\ priority_queue[k].next_run = 4
    /\ Len(queue) = 1

\* The pool thread is between the assignment of the firing's locals and
\* the end of _execute_job.
InAttempts ==
    wpc \in {"loop_test", "post", "backoff_check", "sleeping",
             "record_success", "record_failed"}

\* C29: a queued firing carries no execution_id; execution_id and
\* actual_start_time are assigned when the pool thread begins the firing
\* (actual_start_time is the time of that moment, the id is one no
\* earlier firing has had) and do not change afterwards, so that every
\* attempt posts the same body; and the row recorded for the firing
\* carries that execution_id.
C29_IdentityOfFiring ==
    /\ [](\A i \in 1..Len(queue) :
              DOMAIN queue[i] = {"job_id", "api_url", "scheduled_time"})
    /\ [][/\ (wpc = "begin" /\ wpc' # "begin") =>
                 /\ actual_start_time' = clock
                 /\ execution_id' \notin drawn
                 /\ execution_id' \in drawn'
          /\ InAttempts => PostBody' = PostBody
          /\ (Records /\ job_executions' # job_executions) =>
                 /\ Len(job_executions') = Len(job_executions) + 1
                 /\ job_executions'[Len(job_executions')].execution_id
                        = execution_id]_vars

\* C29 witness: the second firing, submitted at second 1 and begun at
\* second 2, has been recorded after two attempts; the store holds the
\* rows of both firings, under different execution ids.
C29_Witness ==
    /\ wpc = "done"
    /\ posts = 2
    /\ Len(job_executions) = 2
    /\ job_executions[1].execution_id # job_executions[2].execution_id
    /\ job_executions[2].execution_id = execution_id
    /\ job_executions[2].scheduled_time = 1
    /\ job_executions[2].actual_start_time = 2

\* Entry a comes before entry b in the order by (next_run, job_id).
BeforeOrSame(a, b) ==
    \/ a.next_run < b.next_run
    \/ a.next_run = b.next_run /\ a.job_id <= b.job_id

\* C30: the entry the loop pops for dispatch is the first of the heap in
\* the order by (next_run, job_id): no entry with a smaller next_run is
\* left behind, and of the entries that are due with the same next_run
\* the one with the smallest job_id goes first.
C30_DispatchOrder ==
    [][(LoopPop /\ priority_queue # <<>>) =>
           \A i \in 1..Len(priority_queue) :
               priority_queue[i].next_run <= now =>
                   BeforeOrSame(heappop_item(priority_queue),
                                priority_queue[i])]_vars

\* C31: after any interleaving of dispatch-loop steps and refresh_schedule
\* calls the heap holds at most one entry per job_id: no two positions of
\* priority_queue carry the same job_id.
C31_OneEntryPerJob ==
    \A i, k \in 1..Len(priority_queue) :
        priority_queue[i].job_id = priority_queue[k].job_id => i = k

\* The dispatch loop is inside one of its sleeps: the empty-heap tick of
\* line 105, the wait for the earliest entry of line 145, or the tick
\* after a logged exception of line 149.
Sleeping == pc["loop"] \in {"sleep", "sleep_locked", "error_sleep"}

\* C32: the dispatch loop never sleeps while holding the heap lock: in
\* every state in which the loop is inside a sleep the lock is free.
C32_SleepsWithoutLock == Sleeping => lock = "free"

\* The loop's iteration on the popped entry ends with this step: the loop
\* is between the pop and the push, and the step takes it out of there.
IterationEnds ==
    /\ pc["loop"] \in {"submit", "reschedule"}
    /\ pc'["loop"] \notin {"submit", "reschedule"}

\* C33: every entry popped for dispatch whose schedule is valid is pushed
\* back with its new next_run in the same loop iteration, also when
\* handing the firing to the worker pool raises: when the iteration ends,
\* the heap holds an entry of the popped job with the next fire instant
\* after `now`.
C33_PoppedEntryPushedBack ==
    [][(IterationEnds /\ get_next_run_time(job.schedule, now) # None) =>
           \E i \in 1..Len(priority_queue') :
               /\ priority_queue'[i].job_id = job.job_id
               /\ priority_queue'[i].next_run
                      = get_next_run_time(job.schedule, now)[1]]_vars

=============================================================================
